---- MODULE Spec2Model ----
(***************************************************************************)
(* pdqselect: pattern-defeating quickselect (tsenart/pdqselect).           *)
(*                                                                         *)
(* The model follows src/pdqselect.go: the three public entry points       *)
(* Select, Ordered and Func, the three drivers pdqselect, pdqselectOrdered *)
(* and pdqselectFunc, and heapSelect.  A slice is a function from          *)
(* 0..n-1 to integers, so that every index is the index of the Go code.    *)
(* The helpers the drivers call (insertionSort, partialInsertionSort,      *)
(* choosePivot, reverseRange, partition, partitionEqual, breakPatterns,    *)
(* siftDown) are not among the source files; they are modelled from        *)
(* sections 4.3 to 4.7 of the specification.                               *)
(***************************************************************************)
EXTENDS Integers, Sequences, FiniteSets, Bags, TLC

VARIABLES
    input,          \* the slice the caller owns before any call
    k,              \* the k of Select(data, k): one-based, maybe out of range
    idx,            \* position in Schedule of the current (or next) call
    pc,             \* position of the current call in the code
    start,          \* the slice as it was handed to the current call
    data,           \* the slice being rearranged
    a, b,           \* the driver's subrange [a, b)
    t,              \* the driver's parameter k: the zero-based target index
    limit,          \* the driver's budget of imbalanced partitions
    wasBalanced,    \* the driver's flag: the last partition was balanced
    wasPartitioned, \* the driver's flag: the last partition found it partitioned
    pivot, hint,    \* what choosePivot returned (after the reversal, if any)
    modulus,        \* what nextPowerOfTwo returned to the last pattern break
    outs            \* the slices the completed calls returned, in call order

vars == <<input, k, idx, pc, start, data, a, b, t, limit,
          wasBalanced, wasPartitioned, pivot, hint, modulus, outs>>

----------------------------------------------------------------------------
(* Bounds of the model.                                                    *)

\* Every slice of length 0..MaxSmall over the values 0..MaxVal is an input.
MaxSmall == 3
MaxVal == 2
\* Generated slices take (i * mult) % mod for mod in 1..MaxMod.
MaxMod == 3

----------------------------------------------------------------------------
(* Program constants.                                                      *)

maxInsertion == 12

unknownHint == 0
increasingHint == 1
decreasingHint == 2

\* partialInsertionSort gives up after this many shifts (spec 4.6).
maxShifts == 8
\* choosePivot: below minProbe no probe, from shortestNinther on the ninther
\* (spec 4.3).
minProbe == 8
shortestNinther == 50

----------------------------------------------------------------------------
(* Element access.  The three specialisations differ only in how they      *)
(* compare: sort.IntSlice's Less, the < of an ordered type, and the sign   *)
(* of a three-way comparator (cmp.Compare in the tests).                   *)

Entries == {"Select", "Ordered", "Func"}
Drivers == {"pdqselect", "pdqselectOrdered", "pdqselectFunc"}

IsInterface(e) == e \in {"Select", "pdqselect"}
IsOrdered(e) == e \in {"Ordered", "pdqselectOrdered"}
IsFunc(e) == e \in {"Func", "pdqselectFunc"}

\* cmp.Compare on integers
Compare(x, y) == IF x < y THEN -1 ELSE IF x > y THEN 1 ELSE 0

\* data.Less(i, j), data[i] < data[j], cmp(data[i], data[j]) < 0
Less(e, d, i, j) ==
    IF IsFunc(e) THEN Compare(d[i], d[j]) < 0 ELSE d[i] < d[j]

SwapOverwrite(d, i, j) == [d EXCEPT ![i] = d[j]]

SwapLosesValue(d, i, j) == [d EXCEPT ![i] = d[j], ![j] = 0]

\* data.Swap(i, j), data[i], data[j] = data[j], data[i]
Swap(d, i, j) == [d EXCEPT ![i] = d[j], ![j] = d[i]]

\* bits.Len(uint(n))
RECURSIVE BitsLen(_)
BitsLen(n) == IF n = 0 THEN 0 ELSE 1 + BitsLen(n \div 2)

----------------------------------------------------------------------------
(* Loops.  A loop of the code is a step operator on a record of the loop's *)
(* variables, with a field run that the step clears once the loop's        *)
(* condition fails; Repeat(Step, s, n) runs at most n iterations, halving  *)
(* n so that a long loop does not nest deeply.                             *)

RECURSIVE Repeat(_, _, _)
Repeat(Step(_), s, n) ==
    IF n <= 0 \/ ~s.run THEN s
    ELSE IF n = 1 THEN Step(s)
    ELSE Repeat(Step, Repeat(Step, s, n \div 2), n - n \div 2)

----------------------------------------------------------------------------
(* insertionSort (spec 4.6): for i from a+1 to b-1, shift the element at i *)
(* left across its strictly greater predecessors.                          *)

RECURSIVE InsertionShift(_, _, _, _)
InsertionShift(e, d, lo, j) ==
    IF j > lo /\ Less(e, d, j, j - 1)
    THEN InsertionShift(e, Swap(d, j, j - 1), lo, j - 1)
    ELSE d

RECURSIVE InsertionFrom(_, _, _, _, _)
InsertionFrom(e, d, lo, hi, i) ==
    IF i < hi
    THEN InsertionFrom(e, InsertionShift(e, d, lo, i), lo, hi, i + 1)
    ELSE d

insertionSort(e, d, lo, hi) == InsertionFrom(e, d, lo, hi, lo + 1)

(* partialInsertionSort (spec 4.6): the same, counting the shift steps;    *)
(* when one more than maxShifts is needed it stops where it is and         *)
(* returns false.  r is [d, steps, ok].                                    *)

RECURSIVE PartialShift(_, _, _, _)
PartialShift(e, r, lo, j) ==
    IF j > lo /\ Less(e, r.d, j, j - 1)
    THEN IF r.steps = maxShifts
         THEN [r EXCEPT !.ok = FALSE]
         ELSE PartialShift(e, [d |-> Swap(r.d, j, j - 1),
                               steps |-> r.steps + 1, ok |-> TRUE], lo, j - 1)
    ELSE r

\* one i of the outer loop; s is [e, lo, hi, i, r, run]
PartialStep(s) ==
    IF s.i < s.hi /\ s.r.ok
    THEN [s EXCEPT !.r = PartialShift(s.e, s.r, s.lo, s.i), !.i = @ + 1]
    ELSE [s EXCEPT !.run = FALSE]

partialInsertionSort(e, d, lo, hi) ==
    Repeat(PartialStep,
           [e |-> e, lo |-> lo, hi |-> hi, i |-> lo + 1,
            r |-> [d |-> d, steps |-> 0, ok |-> TRUE], run |-> TRUE],
           hi - lo).r

----------------------------------------------------------------------------
(* choosePivot (spec 4.3).  The probes are sorted in place by compare-and- *)
(* swap in the order (x,y), (y,z), (x,y), which leaves the median at y.    *)
(* r is [d, swaps].                                                        *)

order2(e, r, x, y) ==
    IF Less(e, r.d, y, x)
    THEN [d |-> Swap(r.d, x, y), swaps |-> r.swaps + 1]
    ELSE r

median(e, r, x, y, z) == order2(e, order2(e, order2(e, r, x, y), y, z), x, y)

medianAdjacent(e, r, x) == median(e, r, x - 1, x, x + 1)

HintOf(swaps, maxSwaps) ==
    IF swaps = 0 THEN increasingHint
    ELSE IF swaps = maxSwaps THEN decreasingHint
    ELSE unknownHint

choosePivot(e, d, lo, hi) ==
    LET n == hi - lo
        r0 == [d |-> d, swaps |-> 0]
    IN  IF n < minProbe
        THEN [d |-> d, pivot |-> lo + n \div 2, hint |-> unknownHint]
        ELSE IF n < shortestNinther
        THEN LET r == median(e, r0, lo, lo + n \div 2, hi - 1)
             IN  [d |-> r.d, pivot |-> lo + n \div 2, hint |-> HintOf(r.swaps, 3)]
        ELSE LET i == lo + (n \div 4) * 1
                 j == lo + (n \div 4) * 2
                 l == lo + (n \div 4) * 3
                 r == median(e, medianAdjacent(e, medianAdjacent(e,
                          medianAdjacent(e, r0, i), j), l), i, j, l)
             IN  [d |-> r.d, pivot |-> j, hint |-> HintOf(r.swaps, 12)]

(* reverseRange: swap the ends inwards.                                    *)

\* s is [d, i, j, run]
ReverseStep(s) ==
    IF s.i < s.j
    THEN [s EXCEPT !.d = Swap(s.d, s.i, s.j), !.i = @ + 1, !.j = @ - 1]
    ELSE [s EXCEPT !.run = FALSE]

reverseRange(d, lo, hi) ==
    Repeat(ReverseStep, [d |-> d, i |-> lo, j |-> hi - 1, run |-> TRUE],
           hi - lo).d

----------------------------------------------------------------------------
(* The partitioners (spec 4.4).  The pivot is first moved to lo.           *)

\* the inner loops move one cursor; s is [e, d, i, j, lo, run]
Cursors(e, d, i, j, lo) ==
    [e |-> e, d |-> d, i |-> i, j |-> j, lo |-> lo, run |-> TRUE]

\* for i <= j && data.Less(i, a) { i++ }
ScanUpStep(s) ==
    IF s.i <= s.j /\ Less(s.e, s.d, s.i, s.lo)
    THEN [s EXCEPT !.i = @ + 1] ELSE [s EXCEPT !.run = FALSE]

ScanUp(e, d, i, j, lo) ==
    Repeat(ScanUpStep, Cursors(e, d, i, j, lo), j - i + 1).i

\* for i <= j && !data.Less(j, a) { j-- }
ScanDownStep(s) ==
    IF s.i <= s.j /\ ~Less(s.e, s.d, s.j, s.lo)
    THEN [s EXCEPT !.j = @ - 1] ELSE [s EXCEPT !.run = FALSE]

ScanDown(e, d, i, j, lo) ==
    Repeat(ScanDownStep, Cursors(e, d, i, j, lo), j - i + 1).j

\* one round of the swapping loop: scan, then swap or break
PartitionStep(s) ==
    LET i2 == ScanUp(s.e, s.d, s.i, s.j, s.lo)
        j2 == ScanDown(s.e, s.d, i2, s.j, s.lo)
    IN  IF i2 > j2
        THEN [s EXCEPT !.i = i2, !.j = j2, !.run = FALSE]
        ELSE [s EXCEPT !.d = Swap(s.d, i2, j2), !.i = i2 + 1, !.j = j2 - 1]

partition(e, d, lo, hi, p) ==
    LET d0 == Swap(d, lo, p)
        i == ScanUp(e, d0, lo + 1, hi - 1, lo)
        j == ScanDown(e, d0, i, hi - 1, lo)
    IN  IF i > j
        THEN [d |-> Swap(d0, j, lo), mid |-> j, alreadyPartitioned |-> TRUE]
        ELSE LET r == Repeat(PartitionStep,
                             Cursors(e, Swap(d0, i, j), i + 1, j - 1, lo),
                             hi - lo)
             IN  [d |-> Swap(r.d, r.j, lo), mid |-> r.j,
                  alreadyPartitioned |-> FALSE]

\* for i <= j && !data.Less(a, i) { i++ }
ScanUpEqualStep(s) ==
    IF s.i <= s.j /\ ~Less(s.e, s.d, s.lo, s.i)
    THEN [s EXCEPT !.i = @ + 1] ELSE [s EXCEPT !.run = FALSE]

ScanUpEqual(e, d, i, j, lo) ==
    Repeat(ScanUpEqualStep, Cursors(e, d, i, j, lo), j - i + 1).i

\* for i <= j && data.Less(a, j) { j-- }
ScanDownEqualStep(s) ==
    IF s.i <= s.j /\ Less(s.e, s.d, s.lo, s.j)
    THEN [s EXCEPT !.j = @ - 1] ELSE [s EXCEPT !.run = FALSE]

ScanDownEqual(e, d, i, j, lo) ==
    Repeat(ScanDownEqualStep, Cursors(e, d, i, j, lo), j - i + 1).j

PartitionEqualStep(s) ==
    LET i2 == ScanUpEqual(s.e, s.d, s.i, s.j, s.lo)
        j2 == ScanDownEqual(s.e, s.d, i2, s.j, s.lo)
    IN  IF i2 > j2
        THEN [s EXCEPT !.i = i2, !.j = j2, !.run = FALSE]
        ELSE [s EXCEPT !.d = Swap(s.d, i2, j2), !.i = i2 + 1, !.j = j2 - 1]

\* returns the first index past the elements equal to the pivot
partitionEqual(e, d, lo, hi, p) ==
    LET r == Repeat(PartitionEqualStep,
                    Cursors(e, Swap(d, lo, p), lo + 1, hi - 1, lo), hi - lo)
    IN  [d |-> r.d, mid |-> r.i]

----------------------------------------------------------------------------
(* The pattern breaker.  A 64-bit register is the set of the positions of  *)
(* its one bits, so that xor is the symmetric difference and a shift moves *)
(* the positions and drops those that leave 0..63.                         *)

Word == 0 .. 63

RECURSIVE Pow2(_)
Pow2(n) == IF n = 0 THEN 1 ELSE 2 * Pow2(n - 1)

\* the bits of a non-negative int below 2^31
BitsOf(n) == {i \in 0 .. 30 : (n \div Pow2(i)) % 2 = 1}

RECURSIVE IntOf(_)
IntOf(bits) ==
    IF bits = {} THEN 0
    ELSE LET i == CHOOSE x \in bits : TRUE IN Pow2(i) + IntOf(bits \ {i})

Xor(x, y) == (x \ y) \cup (y \ x)
Shl(x, n) == {i + n : i \in x} \cap Word
Shr(x, n) == {i - n : i \in x} \cap Word

\* xorshift.Next: the new register, which is also the value returned
Next64(r) ==
    LET r1 == Xor(r, Shl(r, 13))
        r2 == Xor(r1, Shr(r1, 17))
    IN  Xor(r2, Shl(r2, 5))

nextPowerOfTwoAtLeast(length) == Pow2(BitsLen(length - 1))

\* shift := uint(bits.Len(uint(length))); return uint(1 << shift)
nextPowerOfTwo(length) == Pow2(BitsLen(length))

\* the three swaps of breakPatterns; r is the register before the i-th
RECURSIVE BreakFrom(_, _, _, _, _, _)
BreakFrom(d, lo, length, at, i, r) ==
    IF i < 3
    THEN LET r1 == Next64(r)
             masked == IntOf(r1 \cap BitsOf(nextPowerOfTwo(length) - 1))
             other == IF masked >= length THEN masked - length ELSE masked
         IN  BreakFrom(Swap(d, at - 1 + i, lo + other), lo, length, at, i + 1, r1)
    ELSE d

breakPatterns(d, lo, hi) ==
    LET length == hi - lo
    IN  IF length >= 8
        THEN BreakFrom(d, lo, length, lo + (length \div 4) * 2 - 1, 0,
                       BitsOf(length))
        ELSE d

----------------------------------------------------------------------------
(* Heap select (src/pdqselect.go, heapSelect).  siftDown works on the heap *)
(* of the positions first .. first+hi-1.                                   *)

RECURSIVE siftDown(_, _, _, _, _)
siftDown(e, d, root, hi, first) ==
    LET child == 2 * root + 1
        c == IF child + 1 < hi /\ Less(e, d, first + child, first + child + 1)
             THEN child + 1 ELSE child
    IN  IF child >= hi THEN d
        ELSE IF ~Less(e, d, first + root, first + c) THEN d
        ELSE siftDown(e, Swap(d, first + root, first + c), c, hi, first)

\* for i := k / 2; i >= 0; i-- { siftDown(data, i, hi, a) }
\* s is [e, d, i, n, hi, lo, run]
HeapBuildStep(s) ==
    IF s.i >= 0
    THEN [s EXCEPT !.d = siftDown(s.e, s.d, s.i, s.hi, s.lo), !.i = @ - 1]
    ELSE [s EXCEPT !.run = FALSE]

HeapBuild(e, d, i, hi, lo) ==
    Repeat(HeapBuildStep,
           [e |-> e, d |-> d, i |-> i, n |-> 0, hi |-> hi, lo |-> lo,
            run |-> TRUE], i + 1).d

HeapRestStepNoSift(s) ==
    IF s.i < s.n
    THEN LET j == s.lo + s.i
         IN  IF Less(s.e, s.d, j, s.lo)
             THEN [s EXCEPT !.d = Swap(s.d, s.lo, j), !.i = @ + 1]
             ELSE [s EXCEPT !.i = @ + 1]
    ELSE [s EXCEPT !.run = FALSE]

\* for i := hi; i < n; i++ { ... }
HeapRestStep(s) ==
    IF s.i < s.n
    THEN LET j == s.lo + s.i
         IN  IF Less(s.e, s.d, j, s.lo)
             THEN [s EXCEPT !.d = siftDown(s.e, Swap(s.d, s.lo, j), 0, s.hi, s.lo),
                            !.i = @ + 1]
             ELSE [s EXCEPT !.i = @ + 1]
    ELSE [s EXCEPT !.run = FALSE]

HeapRest(e, d, i, n, hi, lo) ==
    Repeat(HeapRestStep,
           [e |-> e, d |-> d, i |-> i, n |-> n, hi |-> hi, lo |-> lo,
            run |-> TRUE], n - i).d

heapSelectNoFinalSwap(e, d, lo, end, kk) ==
    LET n == end - lo
        hi == kk + 1
    IN  HeapRest(e, HeapBuild(e, d, kk \div 2, hi, lo), hi, n, hi, lo)

heapSelect(e, d, lo, end, kk) ==
    LET n == end - lo
        hi == kk + 1
    IN  Swap(HeapRest(e, HeapBuild(e, d, kk \div 2, hi, lo), hi, n, hi, lo),
             lo, lo + kk)

----------------------------------------------------------------------------
(* The fast paths at the head of the three drivers.                        *)

\* for i := ...; i < b; i++ { if data.Less(i, mn) { mn = i } }
\* s is [e, d, i, hi, m, run]
MinStep(s) ==
    IF s.i < s.hi
    THEN [s EXCEPT !.m = IF Less(s.e, s.d, s.i, @) THEN s.i ELSE @, !.i = @ + 1]
    ELSE [s EXCEPT !.run = FALSE]

MinFrom(e, d, i, hi, mn) ==
    Repeat(MinStep, [e |-> e, d |-> d, i |-> i, hi |-> hi, m |-> mn,
                     run |-> TRUE], hi - i).m

GreaterReversed(e, d, i, j) == Less(e, d, i, j)

GreaterOrEqualOrdered(e, d, i, j) ==
    IF IsInterface(e) THEN Less(e, d, j, i)
    ELSE IF IsOrdered(e) THEN d[i] >= d[j]
    ELSE Compare(d[i], d[j]) > 0

\* Less(mx, i), data[i] > data[mx], cmp(data[i], data[mx]) > 0
Greater(e, d, i, j) ==
    IF IsInterface(e) THEN Less(e, d, j, i)
    ELSE IF IsOrdered(e) THEN d[i] > d[j]
    ELSE Compare(d[i], d[j]) > 0

\* for i := a + 1; i < b; i++ { if ... { mx = i } }
MaxStep(s) ==
    IF s.i < s.hi
    THEN [s EXCEPT !.m = IF Greater(s.e, s.d, s.i, @) THEN s.i ELSE @, !.i = @ + 1]
    ELSE [s EXCEPT !.run = FALSE]

MaxFrom(e, d, i, hi, mx) ==
    Repeat(MaxStep, [e |-> e, d |-> d, i |-> i, hi |-> hi, m |-> mx,
                     run |-> TRUE], hi - i).m

FastMinNoSwap(e, d, lo, hi) == d

\* k == 0: pdqselect scans from a, the other two from a + 1;
\* pdqselectOrdered swaps without testing mn != a
FastMin(e, d, lo, hi) ==
    LET mn == MinFrom(e, d, IF IsInterface(e) THEN lo ELSE lo + 1, hi, lo)
    IN  IF IsOrdered(e) \/ mn # lo THEN Swap(d, mn, lo) ELSE d

FastMaxToFront(e, d, lo, hi) ==
    LET mx == MaxFrom(e, d, lo + 1, hi, lo)
    IN  IF IsOrdered(e) \/ mx # hi - 1 THEN Swap(d, mx, lo) ELSE d

FastMaxSwapsEnds(e, d, lo, hi) ==
    LET mx == MaxFrom(e, d, lo + 1, hi, lo)
    IN  IF IsOrdered(e) \/ mx # hi - 1 THEN Swap(d, lo, hi - 1) ELSE d

\* k == b - 1
FastMax(e, d, lo, hi) ==
    LET mx == MaxFrom(e, d, lo + 1, hi, lo)
    IN  IF IsOrdered(e) \/ mx # hi - 1 THEN Swap(d, mx, hi - 1) ELSE d

NotLessAlways(e, d, i, j) == TRUE

NotLessSwapped(e, d, i, j) == ~Less(e, d, j, i)

\* !data.Less(a-1, pivot), data[a-1] >= data[pivot], cmp(...) >= 0
NotLess(e, d, i, j) ==
    IF IsInterface(e) THEN ~Less(e, d, i, j)
    ELSE IF IsOrdered(e) THEN d[i] >= d[j]
    ELSE Compare(d[i], d[j]) >= 0

----------------------------------------------------------------------------
(* The inputs.                                                             *)

Size(d) == Cardinality(DOMAIN d)

\* the slice holding the elements of the tuple s
Slice(s) == [i \in 0 .. Len(s) - 1 |-> s[i + 1]]

Min2(x, y) == IF x < y THEN x ELSE y

\* every slice of at most MaxSmall elements over 0..MaxVal
SmallSlices == UNION {[0 .. n - 1 -> 0 .. MaxVal] : n \in 0 .. MaxSmall}

\* the README's example, the cases of TestSelect and seeds of FuzzSelect
ReadmeInput == Slice(<<5, 4, 0, 10, 1, 2, 1>>)

TestInputs ==
    { Slice(<<1, 2, 3, 4, 5>>),
      Slice(<<5, 4, 3, 2, 1>>),
      Slice(<<3, 7, 2, 1, 4, 6, 5, 8, 9>>),
      Slice(<<15, 3, 9, 8, 5, 2, 7, 1, 6, 13, 11, 12, 10, 4, 14>>),
      Slice(<<1, 1, 1, 1, 1>>),
      Slice(<<2, 2, 2, 2, 1, 2, 2, 3, 2, 2>>),
      Slice(<<42>>),
      Slice(<<2, 1>>) }

FuzzSeeds ==
    { Slice(<<1, 4, 7, 2, 0, 0, 0, 0, 0, 0, 0, 0, 0, 0, 0, 1>>),
      Slice(<<254, 4, 7, 2, 0, 0, 0, 255, 0, 0, 0, 0, 0, 0, 0, 253>>),
      Slice(<<0, 0, 0, 0, 0, 0, 0, 255, 0, 0, 0, 0, 0, 0, 0, 253,
              0, 0, 0, 0, 0, 0>>) }

\* the deterministic distributions of the test's generateSlice
ISqrt(n) == CHOOSE r \in 0 .. n : r * r <= n /\ (r + 1) * (r + 1) > n

Dists == {"sorted", "reversed", "organ_pipe", "sawtooth", "push_front",
          "push_middle"}

generateSlice(size, dist) ==
    [i \in 0 .. size - 1 |->
        CASE dist = "sorted" -> i
          [] dist = "reversed" -> size - i
          [] dist = "organ_pipe" ->
                IF i < size \div 2 THEN i
                ELSE IF size - 1 - i < size \div 2 THEN size - 1 - i
                ELSE size \div 2
          [] dist = "sawtooth" -> i % ISqrt(size)
          [] dist = "push_front" ->
                IF i < size \div 2 THEN 0 ELSE i - size \div 2 + 1
          [] dist = "push_middle" ->
                IF i < size \div 4 \/ i >= (3 * size) \div 4 THEN i
                ELSE size \div 2]

DistLens == {13, 17, 52}

\* slices with many duplicates: (i * mult) % mod, cut off at cap
Periodic(n, mod, mult, cap) == [i \in 0 .. n - 1 |-> Min2((i * mult) % mod, cap)]

PeriodicLens == {15, 19}

PeriodicSlices ==
    {Periodic(n, mod, mult, cap) :
        n \in PeriodicLens, mod \in 1 .. MaxMod, mult \in 0 .. MaxMod - 1,
        cap \in {1, MaxMod}}

\* long slices of ones with a zero at every ninth place: the first partition
\* leaves thirteen zeros on the left, less than an eighth of the slice
CombLens == {113}

CombSlices == {Periodic(n, 9, 1, 1) : n \in CombLens}

\* a shuffled-looking slice, 0 2 4 6 8 1 3 5 7 twice: on the way to its
\* second smallest element a partition leaves one element on the chosen side
StrideSlices == {Periodic(18, 9, 2, 9)}

\* a long slice of zeros with three ones and thirteen twos: the first pivot is
\* a one, which leaves less than an eighth of the slice on the right, and the
\* next pivot is a one again
SkewedOnes == {17, 34, 74}
SkewedTwos == {18, 35, 39, 44, 56, 61, 64, 76, 87, 89, 101, 102, 128}

SkewedSlices ==
    {[i \in 0 .. 135 |-> IF i \in SkewedOnes THEN 1
                         ELSE IF i \in SkewedTwos THEN 2 ELSE 0]}

\* a rising run followed by a falling run of larger elements: the right side
\* of the first partition is in decreasing order
RisingFalling(n, m) == [i \in 0 .. n - 1 |-> IF i < m THEN i ELSE n - 1 + m - i]

RisingFallingSlices == {RisingFalling(29, 15)}

Slices ==
    SmallSlices \cup {ReadmeInput} \cup TestInputs \cup FuzzSeeds
    \cup {generateSlice(n, dist) : n \in DistLens, dist \in Dists}
    \cup PeriodicSlices \cup CombSlices \cup StrideSlices \cup SkewedSlices
    \cup RisingFallingSlices

\* the k tried on a slice: all of them, in range or not, on a short slice
\* and every KStep-th on a long one
AllKBelow == 23
KStep == 8

Ks(s) ==
    IF Size(s) < AllKBelow
    THEN -1 .. Size(s) + 1
    ELSE {kk \in 0 .. Size(s) + 1 : kk % KStep \in {1, 2} \/ kk >= Size(s) - 1}

----------------------------------------------------------------------------
(* The calls.  As FuzzSelect does, each entry point and each driver (with  *)
(* budget 0) is called on a copy of the input; each entry point is then    *)
(* called again on what it returned, and once more on the input.           *)

Schedule ==
    << [entry |-> "Select", on |-> "input"],
       [entry |-> "Select", on |-> "output"],
       [entry |-> "Select", on |-> "input"],
       [entry |-> "Ordered", on |-> "input"],
       [entry |-> "Ordered", on |-> "output"],
       [entry |-> "Ordered", on |-> "input"],
       [entry |-> "Func", on |-> "input"],
       [entry |-> "Func", on |-> "output"],
       [entry |-> "Func", on |-> "input"],
       [entry |-> "pdqselect", on |-> "input"],
       [entry |-> "pdqselectOrdered", on |-> "input"],
       [entry |-> "pdqselectFunc", on |-> "input"] >>

Calling == idx <= Len(Schedule)
Entry == Schedule[idx].entry
Argument == IF Schedule[idx].on = "input" THEN input ELSE outs[idx - 1]

Init ==
    /\ input \in Slices
    /\ k \in Ks(input)
    /\ idx = 1
    /\ pc = "idle"
    /\ start = input
    /\ data = input
    /\ a = 0 /\ b = 0 /\ t = 0 /\ limit = 0
    /\ wasBalanced = TRUE /\ wasPartitioned = TRUE
    /\ pivot = 0 /\ hint = unknownHint
    /\ modulus = 0
    /\ outs = <<>>

InitialLimitOne(n) == 1

InitialLimitFloorLog(n) == BitsLen(n) - 1

\* Select, Ordered, Func: return at once when k is out of range, else enter
\* the driver on [0, n) with target k-1 and budget bits.Len(n)
InitialLimit(n) == BitsLen(n)

InRangeNoUpper(kk, n) == ~(kk < 1)

\* if k < 1 || k > n { return }
InRange(kk, n) == ~(kk < 1 \/ kk > n)

CallEntry ==
    /\ pc = "idle" /\ Calling /\ Entry \in Entries
    /\ start' = Argument
    /\ data' = Argument
    /\ LET n == Size(Argument)
       IN  IF InRange(k, n)
           THEN /\ a' = 0 /\ b' = n /\ t' = k - 1
                /\ limit' = InitialLimit(n)
                /\ pc' = "entry"
           ELSE /\ pc' = "ret"
                /\ UNCHANGED <<a, b, t, limit>>
    /\ UNCHANGED <<input, k, idx, wasBalanced, wasPartitioned, pivot, hint,
                   outs, modulus>>

\* FuzzSelect: pdqselect(slice, 0, len(slice), k-1, 0) for k in 1..len
CallDriver ==
    /\ pc = "idle" /\ Calling /\ Entry \in Drivers
    /\ InRange(k, Size(Argument))
    /\ start' = Argument
    /\ data' = Argument
    /\ a' = 0 /\ b' = Size(Argument) /\ t' = k - 1 /\ limit' = 0
    /\ pc' = "entry"
    /\ UNCHANGED <<input, k, idx, wasBalanced, wasPartitioned, pivot, hint,
                   outs, modulus>>

\* FuzzSelect calls no driver with a k out of range
SkipDriver ==
    /\ pc = "idle" /\ Calling /\ Entry \in Drivers
    /\ ~InRange(k, Size(Argument))
    /\ idx' = idx + 1
    /\ outs' = Append(outs, Argument)
    /\ UNCHANGED <<input, k, pc, start, data, a, b, t, limit,
                   wasBalanced, wasPartitioned, pivot, hint, modulus>>

\* if k == 0 { ... return }
FastPathMin ==
    /\ pc = "entry" /\ t = 0
    /\ data' = FastMin(Entry, data, a, b)
    /\ pc' = "ret"
    /\ UNCHANGED <<input, k, idx, start, a, b, t, limit,
                   wasBalanced, wasPartitioned, pivot, hint, outs, modulus>>

\* if hi := b - 1; k == hi { ... return }
FastPathMax ==
    /\ pc = "entry" /\ t # 0 /\ t = b - 1
    /\ data' = FastMax(Entry, data, a, b)
    /\ pc' = "ret"
    /\ UNCHANGED <<input, k, idx, start, a, b, t, limit,
                   wasBalanced, wasPartitioned, pivot, hint, outs, modulus>>

\* var ( wasBalanced = true; wasPartitioned = true ): locals of the call
StaleFlags == [wasBalanced |-> wasBalanced, wasPartitioned |-> wasPartitioned]

InitialFlags == [wasBalanced |-> TRUE, wasPartitioned |-> TRUE]

EnterLoop ==
    /\ pc = "entry" /\ t # 0 /\ t # b - 1
    /\ wasBalanced' = InitialFlags.wasBalanced
    /\ wasPartitioned' = InitialFlags.wasPartitioned
    /\ pc' = "loop"
    /\ UNCHANGED <<input, k, idx, start, data, a, b, t, limit, pivot, hint,
                   outs, modulus>>

InsertionSortFromSecond ==
    /\ pc = "loop" /\ b - a <= maxInsertion
    /\ data' = insertionSort(Entry, data, a + 1, b)
    /\ pc' = "ret"
    /\ UNCHANGED <<input, k, idx, start, a, b, t, limit,
                   wasBalanced, wasPartitioned, pivot, hint, outs, modulus>>

\* if length <= maxInsertion { insertionSort(data, a, b); return }
InsertionSort ==
    /\ pc = "loop" /\ b - a <= maxInsertion
    /\ data' = insertionSort(Entry, data, a, b)
    /\ pc' = "ret"
    /\ UNCHANGED <<input, k, idx, start, a, b, t, limit,
                   wasBalanced, wasPartitioned, pivot, hint, outs, modulus>>

\* if limit == 0 { heapSelect(data, a, b, k); return }
HeapSelect ==
    /\ pc = "loop" /\ b - a > maxInsertion /\ limit = 0
    /\ data' = heapSelect(Entry, data, a, b, t)
    /\ pc' = "ret"
    /\ UNCHANGED <<input, k, idx, start, a, b, t, limit,
                   wasBalanced, wasPartitioned, pivot, hint, outs, modulus>>

BreakPatternsKeepsBudget ==
    /\ pc = "loop" /\ b - a > maxInsertion /\ limit # 0
    /\ ~wasBalanced
    /\ data' = breakPatterns(data, a, b)
    /\ modulus' = nextPowerOfTwo(b - a)
    /\ pc' = "choose"
    /\ UNCHANGED <<input, k, idx, start, a, b, t, limit,
                   wasBalanced, wasPartitioned, pivot, hint, outs>>

\* if !wasBalanced { breakPatterns(data, a, b); limit-- }
BreakPatterns ==
    /\ pc = "loop" /\ b - a > maxInsertion /\ limit # 0
    /\ ~wasBalanced
    /\ data' = breakPatterns(data, a, b)
    /\ modulus' = nextPowerOfTwo(b - a)
    /\ limit' = limit - 1
    /\ pc' = "choose"
    /\ UNCHANGED <<input, k, idx, start, a, b, t,
                   wasBalanced, wasPartitioned, pivot, hint, outs>>

\* pivot, hint := choosePivot(data, a, b)
ChoosePivot ==
    /\ \/ pc = "loop" /\ b - a > maxInsertion /\ limit # 0 /\ wasBalanced
       \/ pc = "choose"
    /\ LET r == choosePivot(Entry, data, a, b)
       IN  /\ data' = r.d
           /\ pivot' = r.pivot
           /\ hint' = r.hint
    /\ pc' = "hint"
    /\ UNCHANGED <<input, k, idx, start, a, b, t, limit,
                   wasBalanced, wasPartitioned, outs, modulus>>

MirrorPivotUnmoved(p, lo, hi) == p

\* if hint == decreasingHint { reverseRange(data, a, b); ... }
MirrorPivot(p, lo, hi) == (hi - 1) - (p - lo)

ReverseRange ==
    /\ pc = "hint" /\ hint = decreasingHint
    /\ data' = reverseRange(data, a, b)
    /\ pivot' = MirrorPivot(pivot, a, b)
    /\ hint' = increasingHint
    /\ pc' = "sorted"
    /\ UNCHANGED <<input, k, idx, start, a, b, t, limit,
                   wasBalanced, wasPartitioned, outs, modulus>>

\* past the reversal, if any
PastHint == (pc = "hint" /\ hint # decreasingHint) \/ pc = "sorted"

LikelySortedUnpartitioned == wasBalanced /\ hint = increasingHint

LikelySorted == wasBalanced /\ wasPartitioned /\ hint = increasingHint

\* if wasBalanced && wasPartitioned && hint == increasingHint {
\*     if partialInsertionSort(data, a, b) { return } }
PartialInsertionSort ==
    /\ PastHint /\ LikelySorted
    /\ LET r == partialInsertionSort(Entry, data, a, b)
       IN  /\ data' = r.d
           /\ pc' = IF r.ok THEN "ret" ELSE "part"
    /\ UNCHANGED <<input, k, idx, start, a, b, t, limit,
                   wasBalanced, wasPartitioned, pivot, hint, outs, modulus>>

AtPartition == pc = "part" \/ (PastHint /\ ~LikelySorted)

EqualPivot == a > 0 /\ NotLess(Entry, data, a - 1, pivot)

PartitionEqualSkipsOne ==
    /\ AtPartition /\ EqualPivot
    /\ LET r == partitionEqual(Entry, data, a, b, pivot)
       IN  /\ data' = r.d
           /\ IF t < r.mid
              THEN pc' = "ret" /\ a' = a
              ELSE pc' = "loop" /\ a' = r.mid + 1
    /\ UNCHANGED <<input, k, idx, start, b, t, limit,
                   wasBalanced, wasPartitioned, pivot, hint, outs, modulus>>

\* if a > 0 && !data.Less(a-1, pivot) {
\*     mid := partitionEqual(data, a, b, pivot)
\*     if k < mid { return }; a = mid; continue }
PartitionEqual ==
    /\ AtPartition /\ EqualPivot
    /\ LET r == partitionEqual(Entry, data, a, b, pivot)
       IN  /\ data' = r.d
           /\ IF t < r.mid
              THEN pc' = "ret" /\ a' = a
              ELSE pc' = "loop" /\ a' = r.mid
    /\ UNCHANGED <<input, k, idx, start, b, t, limit,
                   wasBalanced, wasPartitioned, pivot, hint, outs, modulus>>

BalancedAboveEighth(sideLen, length) == sideLen > length \div 8

\* leftLen >= balanceThreshold, rightLen >= balanceThreshold
Balanced(sideLen, length) == sideLen >= length \div 8

PartitionOvershoots ==
    /\ AtPartition /\ ~EqualPivot
    /\ LET r == partition(Entry, data, a, b, pivot)
           length == b - a
           leftLen == r.mid - a
           rightLen == b - r.mid
       IN  /\ data' = r.d
           /\ IF t = r.mid
              THEN /\ pc' = "ret"
                   /\ UNCHANGED <<a, b, wasBalanced, wasPartitioned>>
              ELSE /\ pc' = "loop"
                   /\ wasPartitioned' = r.alreadyPartitioned
                   /\ IF t < r.mid
                      THEN /\ wasBalanced' = Balanced(leftLen, length)
                           /\ b' = r.mid
                           /\ a' = a
                      ELSE /\ wasBalanced' = Balanced(rightLen, length)
                           /\ a' = r.mid + 2
                           /\ b' = b
    /\ UNCHANGED <<input, k, idx, start, t, limit, pivot, hint, outs, modulus>>

PartitionKeepsPivot ==
    /\ AtPartition /\ ~EqualPivot
    /\ LET r == partition(Entry, data, a, b, pivot)
           length == b - a
           leftLen == r.mid - a
           rightLen == b - r.mid
       IN  /\ data' = r.d
           /\ IF t = r.mid
              THEN /\ pc' = "ret"
                   /\ UNCHANGED <<a, b, wasBalanced, wasPartitioned>>
              ELSE /\ pc' = "loop"
                   /\ wasPartitioned' = r.alreadyPartitioned
                   /\ IF t < r.mid
                      THEN /\ wasBalanced' = Balanced(leftLen, length)
                           /\ b' = r.mid
                           /\ a' = a
                      ELSE /\ wasBalanced' = Balanced(rightLen, length)
                           /\ a' = r.mid
                           /\ b' = b
    /\ UNCHANGED <<input, k, idx, start, t, limit, pivot, hint, outs, modulus>>

\* mid, alreadyPartitioned := partition(data, a, b, pivot) and the descent
Partition ==
    /\ AtPartition /\ ~EqualPivot
    /\ LET r == partition(Entry, data, a, b, pivot)
           length == b - a
           leftLen == r.mid - a
           rightLen == b - r.mid
       IN  /\ data' = r.d
           /\ IF t = r.mid
              THEN /\ pc' = "ret"
                   /\ UNCHANGED <<a, b, wasBalanced, wasPartitioned>>
              ELSE /\ pc' = "loop"
                   /\ wasPartitioned' = r.alreadyPartitioned
                   /\ IF t < r.mid
                      THEN /\ wasBalanced' = Balanced(leftLen, length)
                           /\ b' = r.mid
                           /\ a' = a
                      ELSE /\ wasBalanced' = Balanced(rightLen, length)
                           /\ a' = r.mid + 1
                           /\ b' = b
    /\ UNCHANGED <<input, k, idx, start, t, limit, pivot, hint, outs, modulus>>

\* the call returns; the harness keeps what it left in the slice
Return ==
    /\ pc = "ret"
    /\ outs' = Append(outs, data)
    /\ idx' = idx + 1
    /\ pc' = "idle"
    /\ UNCHANGED <<input, k, start, data, a, b, t, limit,
                   wasBalanced, wasPartitioned, pivot, hint, modulus>>

Next ==
    \/ CallEntry
    \/ CallDriver
    \/ SkipDriver
    \/ FastPathMin
    \/ FastPathMax
    \/ EnterLoop
    \/ InsertionSort
    \/ HeapSelect
    \/ BreakPatterns
    \/ ChoosePivot
    \/ ReverseRange
    \/ PartialInsertionSort
    \/ PartitionEqual
    \/ Partition
    \/ Return

Spec == Init /\ [][Next]_vars

----------------------------------------------------------------------------
(* Calls on a subrange.  FuzzSelect calls heapSelect, heapSelectOrdered    *)
(* and heapSelectFunc on [a, b) with a rank relative to a; the drivers     *)
(* take the same (a, b) with an absolute target and, here, budget 0.       *)
(* Entry names the driver; a heapSelect call is that of the driver's       *)
(* specialisation.  t holds the fourth argument of either call.            *)

RangeSlices == {ReadmeInput} \cup TestInputs \cup FuzzSeeds

\* heapSelect(data, a, b, k) reads and swaps positions up to a + k; a driver
\* call that would hand it an a + k past the end of the slice stops with an
\* index-out-of-range panic and is not among the calls
HeapInsideSlice(d, lo, hi, target) ==
    \/ hi - lo <= maxInsertion
    \/ target = 0 \/ target = hi - 1
    \/ lo + target < Size(d)

RangeInit ==
    /\ input \in RangeSlices
    /\ idx \in {i \in 1 .. Len(Schedule) : Schedule[i].entry \in Drivers}
    /\ a \in 0 .. Size(input) - 1
    /\ b \in a + 1 .. Size(input)
    /\ pc \in {"heapcall", "entry"}
    /\ t \in IF pc = "heapcall" THEN 0 .. b - a - 1
             ELSE {x \in a .. b - 1 : HeapInsideSlice(input, a, b, x)}
    /\ k = t + 1
    /\ limit = 0
    /\ start = input
    /\ data = input
    /\ wasBalanced = TRUE /\ wasPartitioned = TRUE
    /\ pivot = 0 /\ hint = unknownHint
    /\ modulus = 0
    /\ outs = <<>>

\* heapSelect(slice, a, b, k-1)
CallHeapSelect ==
    /\ pc = "heapcall"
    /\ data' = heapSelect(Entry, data, a, b, t)
    /\ pc' = "heapret"
    /\ UNCHANGED <<input, k, idx, start, a, b, t, limit,
                   wasBalanced, wasPartitioned, pivot, hint, outs, modulus>>

RangeNext ==
    \/ CallHeapSelect
    \/ FastPathMin
    \/ FastPathMax
    \/ EnterLoop
    \/ InsertionSort
    \/ HeapSelect
    \/ Return

RangeSpec == RangeInit /\ [][RangeNext]_vars

----------------------------------------------------------------------------
(* Func with a comparator that keeps no order: each of its answers is any  *)
(* of the three signs, whatever the elements and whatever it said before.  *)
(* The slices hold equal elements, so the swaps of the helpers leave them  *)
(* as they are, and a helper is modelled by the results its loops can      *)
(* reach under some run of answers.                                        *)

AnyLens == {13, 184}

AnySlices == {[i \in 0 .. n - 1 |-> 0] : n \in AnyLens}

\* targets near both ends of the slice
AnyKs(s) == {1, 2, Size(s) - 2, Size(s)}

FuncOnInput ==
    CHOOSE i \in 1 .. Len(Schedule) :
        Schedule[i] = [entry |-> "Func", on |-> "input"]

\* Func(data, k, cmp) with 1 <= k <= n, at the entry of pdqselectFunc
AnyInit ==
    /\ input \in AnySlices
    /\ k \in AnyKs(input) /\ InRange(k, Size(input))
    /\ idx = FuncOnInput
    /\ pc = "entry"
    /\ start = input
    /\ data = input
    /\ a = 0 /\ b = Size(input) /\ t = k - 1
    /\ limit = InitialLimit(Size(input))
    /\ wasBalanced = TRUE /\ wasPartitioned = TRUE
    /\ pivot = 0 /\ hint = unknownHint
    /\ modulus = 0
    /\ outs = <<>>

\* if k == 0 { ... return }: scans a+1 .. b-1, swaps within a .. b-1
AnyFastPathMin ==
    /\ pc = "entry" /\ t = 0
    /\ pc' = "ret"
    /\ UNCHANGED <<input, k, idx, start, data, a, b, t, limit,
                   wasBalanced, wasPartitioned, pivot, hint, outs, modulus>>

\* if hi := b - 1; k == hi { ... return }
AnyFastPathMax ==
    /\ pc = "entry" /\ t # 0 /\ t = b - 1
    /\ pc' = "ret"
    /\ UNCHANGED <<input, k, idx, start, data, a, b, t, limit,
                   wasBalanced, wasPartitioned, pivot, hint, outs, modulus>>

\* insertionSortCmpFunc(data, a, b, cmp): j runs from i down to a at most
AnyInsertionSort ==
    /\ pc = "loop" /\ b - a <= maxInsertion
    /\ pc' = "ret"
    /\ UNCHANGED <<input, k, idx, start, data, a, b, t, limit,
                   wasBalanced, wasPartitioned, pivot, hint, outs, modulus>>

\* heapSelectFunc(data, a, b, k, cmp) ends with data[a], data[a+k] =
\* data[a+k], data[a]: past the end of the slice the call panics
AnyHeapSelect ==
    /\ pc = "loop" /\ b - a > maxInsertion /\ limit = 0
    /\ pc' = IF a + t < Size(data) THEN "ret" ELSE "panic"
    /\ UNCHANGED <<input, k, idx, start, data, a, b, t, limit,
                   wasBalanced, wasPartitioned, pivot, hint, outs, modulus>>

\* choosePivotCmpFunc: the probe in the middle, with any count of swaps
AnyChoosePivot ==
    /\ \/ pc = "loop" /\ b - a > maxInsertion /\ limit # 0 /\ wasBalanced
       \/ pc = "choose"
    /\ pivot' = choosePivot(Entry, data, a, b).pivot
    /\ hint' \in {unknownHint, increasingHint, decreasingHint}
    /\ pc' = "hint"
    /\ UNCHANGED <<input, k, idx, start, data, a, b, t, limit,
                   wasBalanced, wasPartitioned, outs, modulus>>

\* partialInsertionSortCmpFunc: done within its shifts, or not
AnyPartialInsertionSort ==
    /\ PastHint /\ LikelySorted
    /\ \E done \in BOOLEAN : pc' = IF done THEN "ret" ELSE "part"
    /\ UNCHANGED <<input, k, idx, start, data, a, b, t, limit,
                   wasBalanced, wasPartitioned, pivot, hint, outs, modulus>>

\* cmp(data[a-1], data[pivot]) >= 0, then partitionEqualCmpFunc returns its
\* upper cursor, which stops anywhere from a+1 to b
AnyPartitionEqual ==
    /\ AtPartition /\ a > 0
    /\ \E mid \in a + 1 .. b :
          IF t < mid
          THEN pc' = "ret" /\ a' = a
          ELSE pc' = "loop" /\ a' = mid
    /\ UNCHANGED <<input, k, idx, start, data, b, t, limit,
                   wasBalanced, wasPartitioned, pivot, hint, outs, modulus>>

\* the places partitionCmpFunc can leave the pivot at: anywhere in a .. b-1
\* when its cursors cross at once, in a+1 .. b-2 after a swap
AnyMids(lo, hi, alreadyPartitioned) ==
    IF alreadyPartitioned THEN lo .. hi - 1 ELSE lo + 1 .. hi - 2

\* a == 0 or cmp(data[a-1], data[pivot]) < 0, then partitionCmpFunc and the
\* descent
AnyPartition ==
    /\ AtPartition
    /\ \E alreadyPartitioned \in BOOLEAN :
       \E mid \in AnyMids(a, b, alreadyPartitioned) :
          LET length == b - a
              leftLen == mid - a
              rightLen == b - mid
          IN  IF t = mid
              THEN /\ pc' = "ret"
                   /\ UNCHANGED <<a, b, wasBalanced, wasPartitioned>>
              ELSE /\ pc' = "loop"
                   /\ wasPartitioned' = alreadyPartitioned
                   /\ IF t < mid
                      THEN /\ wasBalanced' = Balanced(leftLen, length)
                           /\ b' = mid
                           /\ a' = a
                      ELSE /\ wasBalanced' = Balanced(rightLen, length)
                           /\ a' = mid + 1
                           /\ b' = b
    /\ UNCHANGED <<input, k, idx, start, data, t, limit, pivot, hint,
                   outs, modulus>>

AnyNext ==
    \/ AnyFastPathMin
    \/ AnyFastPathMax
    \/ EnterLoop
    \/ AnyInsertionSort
    \/ AnyHeapSelect
    \/ BreakPatterns
    \/ AnyChoosePivot
    \/ ReverseRange
    \/ AnyPartialInsertionSort
    \/ AnyPartitionEqual
    \/ AnyPartition
    \/ Return

AnySpec == AnyInit /\ [][AnyNext]_vars

----------------------------------------------------------------------------
(* nextPowerOfTwo on its own: a call with the length b - a of a subrange   *)
(* [a, b), a = 0, whose result is kept in modulus.                         *)

MaxLength == 64

PowInit ==
    /\ input = Slice(<<>>)
    /\ k = 0
    /\ idx = 1
    /\ pc = "powcall"
    /\ start = input
    /\ data = input
    /\ a = 0 /\ b \in 1 .. MaxLength /\ t = 0 /\ limit = 0
    /\ wasBalanced = TRUE /\ wasPartitioned = TRUE
    /\ pivot = 0 /\ hint = unknownHint
    /\ modulus = 0
    /\ outs = <<>>

\* modulus := nextPowerOfTwo(length)
CallNextPowerOfTwo ==
    /\ pc = "powcall"
    /\ modulus' = nextPowerOfTwo(b - a)
    /\ pc' = "powret"
    /\ UNCHANGED <<input, k, idx, start, data, a, b, t, limit,
                   wasBalanced, wasPartitioned, pivot, hint, outs>>

PowNext == CallNextPowerOfTwo

PowSpec == PowInit /\ [][PowNext]_vars

----------------------------------------------------------------------------
(* What the claims speak of.                                               *)

Values(d) == {d[i] : i \in DOMAIN d}
CountLess(d, v) == Cardinality({i \in DOMAIN d : d[i] < v})
CountUpTo(d, v) == Cardinality({i \in DOMAIN d : d[i] <= v})

\* the element at position r of the sorted copy of d
KthSmallest(d, r) ==
    CHOOSE v \in Values(d) : CountLess(d, v) <= r /\ r < CountUpTo(d, v)

\* d and c hold the same elements, each as often
SameElements(d, c) ==
    /\ DOMAIN d = DOMAIN c
    /\ \A v \in Values(d) \cup Values(c) :
          Cardinality({i \in DOMAIN d : d[i] = v})
              = Cardinality({i \in DOMAIN c : c[i] = v})

\* a call of Select, Ordered or Func with k in [1, N] is about to return
PublicReturn ==
    /\ pc = "ret" /\ Entry \in Entries
    /\ 1 <= k /\ k <= Size(start)

\* the call went through the partitioning loop and moved something
WentThroughLoop ==
    /\ Size(start) > maxInsertion
    /\ t # 0 /\ t # Size(start) - 1
    /\ data # start

\* the indices of the completed calls on the input itself
OnInput == {i \in 1 .. Len(outs) : Schedule[i].on = "input"}

----------------------------------------------------------------------------
(* The claims.                                                             *)

\* C1: when Select, Ordered or Func returns from a call with 1 <= k <= N,
\* position k-1 holds the value at position k-1 of the sorted copy of the
\* slice the call was given.
RankAtK == PublicReturn => data[k - 1] = KthSmallest(start, k - 1)

RankAtKWitness ==
    /\ PublicReturn /\ WentThroughLoop
    /\ a > 0 /\ b < Size(start)
    /\ data[k - 1] = KthSmallest(start, k - 1)

\* C2: on return every element before position k-1 is <= the element at
\* k-1 and every element from k-1 on is >= it.
PartitionedAroundK ==
    PublicReturn =>
        /\ \A i \in 0 .. k - 2 : data[i] <= data[k - 1]
        /\ \A i \in k - 1 .. Size(data) - 1 : data[i] >= data[k - 1]

PartitionedAroundKWitness ==
    /\ PublicReturn /\ WentThroughLoop
    /\ \E i \in 0 .. k - 3 : data[i] > data[i + 1]
    /\ \E i \in k .. Size(data) - 2 : data[i] > data[i + 1]
    /\ \A i \in 0 .. k - 2 : data[i] <= data[k - 1]
    /\ \A i \in k - 1 .. Size(data) - 1 : data[i] >= data[k - 1]

\* C3: on return the first k positions hold, as a multiset, the k smallest
\* elements of the slice the call was given.
FirstKAreSmallest ==
    PublicReturn =>
        \A v \in Values(start) :
            Cardinality({i \in 0 .. k - 1 : data[i] = v})
                = Min2(CountUpTo(start, v), k) - Min2(CountLess(start, v), k)

FirstKAreSmallestWitness ==
    /\ PublicReturn /\ WentThroughLoop
    /\ \E i \in 0 .. k - 2 : data[i] > data[i + 1]
    /\ \E i \in 0 .. k - 1 : \E j \in k .. Size(start) - 1 : start[j] < start[i]
    /\ \A v \in Values(start) :
          Cardinality({i \in 0 .. k - 1 : data[i] = v})
              = Min2(CountUpTo(start, v), k) - Min2(CountLess(start, v), k)

\* C4: at every point of every call, and after it, whatever k is, the slice
\* holds the elements of the input, each as often as the input does.
OnlyPermutes == SameElements(data, input)

OnlyPermutesWitness ==
    /\ pc \in {"loop", "choose", "hint", "sorted", "part"}
    /\ data # start
    /\ SameElements(data, input)

\* C5: a call of Select, Ordered or Func with k < 1 or k > N goes straight
\* to its return and leaves every position as it was.
OutOfRangeIsNoOp ==
    (pc # "idle" /\ Entry \in Entries /\ (k < 1 \/ k > Size(start)))
        => (pc = "ret" /\ data = start)

OutOfRangeIsNoOpWitness ==
    /\ pc = "ret" /\ Entry \in Entries
    /\ k = Size(start) + 1 /\ Size(start) > 1
    /\ \E i \in 0 .. Size(start) - 2 : start[i] > start[i + 1]
    /\ data = start

\* C6: on the README's input 5, 4, 0, 10, 1, 2, 1 with k = 3, Select and
\* Ordered leave 1, 0, 1 in the first three positions, in that order.
ReadmeExample ==
    (/\ pc = "ret" /\ Entry \in {"Select", "Ordered"}
     /\ start = ReadmeInput /\ k = 3)
        => (data[0] = 1 /\ data[1] = 0 /\ data[2] = 1)

\* C7, as claimed: a second call with the same k on what the first call
\* returned changes no position.
SecondCallIsNoOp ==
    (PublicReturn /\ Schedule[idx].on = "output") => data = start

\* C7, amended: the second call leaves the value at position k-1 as it
\* was, and changes no position at all when N <= 12.
SecondCallKeepsRank ==
    (PublicReturn /\ Schedule[idx].on = "output") =>
        /\ data[k - 1] = start[k - 1]
        /\ Size(start) <= maxInsertion => data = start

SecondCallKeepsRankWitness ==
    /\ PublicReturn /\ Schedule[idx].on = "output"
    /\ data # start
    /\ data[k - 1] = start[k - 1]

\* C8: two calls of the same entry point on the same slice with the same k
\* return the same slice, position by position.
Deterministic ==
    \A i, j \in OnInput :
        Schedule[i].entry = Schedule[j].entry => outs[i] = outs[j]

DeterministicWitness ==
    /\ \E i, j \in OnInput :
          /\ i < j /\ Schedule[i].entry = Schedule[j].entry
          /\ Schedule[i].entry \in Entries
          /\ outs[i] = outs[j] /\ outs[i] # input
          /\ Size(input) > maxInsertion
    /\ 2 < k /\ k < Size(input) - 1

\* C9: Select, Ordered and Func return the same slice, position by
\* position, when given the same slice and the same k.
EntriesAgree ==
    \A i, j \in 1 .. Len(outs) :
        (/\ Schedule[i].entry \in Entries /\ Schedule[j].entry \in Entries
         /\ Schedule[i].entry # Schedule[j].entry
         /\ Schedule[i].on = Schedule[j].on)
            => outs[i] = outs[j]

EntriesAgreeWitness ==
    /\ Len(outs) >= 7
    /\ outs[1] = outs[4] /\ outs[4] = outs[7]
    /\ outs[1] # input
    /\ Size(input) > maxInsertion
    /\ 2 < k /\ k < Size(input) - 1

\* C10: for N >= 1, a call with k = 1 returns with a minimum of the slice
\* at position 0, and a call with k = N with a maximum at position N-1.
MinAndMaxInPlace ==
    PublicReturn =>
        /\ k = 1 => \A i \in DOMAIN start : data[0] <= start[i]
        /\ k = Size(start) => \A i \in DOMAIN start : data[k - 1] >= start[i]

MinAndMaxInPlaceWitness ==
    /\ PublicReturn
    /\ k = Size(start) /\ k > 2
    /\ data # start
    /\ \A i \in DOMAIN start : data[k - 1] >= start[i]

\* C11: when all N elements are equal, a call with any k in [1, N] returns
\* with every position holding the value it held before, also when N > 12
\* and the call goes through the partitioning loop.
AllEqual(d) == \A i, j \in DOMAIN d : d[i] = d[j]

EqualElementsStay == (PublicReturn /\ AllEqual(start)) => data = start

EqualElementsStayWitness ==
    /\ PublicReturn /\ AllEqual(start)
    /\ Size(start) > maxInsertion
    /\ t # 0 /\ t # Size(start) - 1
    /\ hint = increasingHint
    /\ data = start

\* C12: every call returns, whatever the slice and k: the driver loop does
\* not iterate forever, because each iteration that does not return starts
\* the next one on a strictly shorter subrange [a, b).
Terminates ==
    [][(pc # "entry" /\ pc' = "loop") => (0 <= b' - a' /\ b' - a' < b - a)]_vars

TerminatesWitness ==
    /\ PublicReturn /\ WentThroughLoop
    /\ a > 0 /\ b < Size(start)
    /\ limit < InitialLimit(Size(start))

\* C13: during a call every index handed to a compare or a swap lies in
\* [0, N).  The fast paths touch a .. b-1 (pdqselectOrdered swaps data[mn]
\* and data[a] even when nothing was scanned), the helpers touch a .. b-1,
\* the equal-pivot test touches a-1 (only when a > 0) and pivot, and
\* heapSelect(data, a, b, t) touches a .. a+t and a .. b-1.
InCall == pc \in {"entry", "loop", "choose", "hint", "sorted", "part"}

Sub(d, lo, hi) == [i \in 0 .. hi - lo - 1 |-> d[lo + i]]

\* C14: heapSelect on [a, b) with a rank r relative to a, 0 <= r < b - a,
\* returns with the (r+1)-th smallest element of [a, b) at a+r, nothing
\* greater before it and nothing smaller after it in [a, b), and the r+1
\* smallest elements of [a, b) at a .. a+r.
HeapSelectSelects ==
    pc = "heapret" =>
        LET got == Sub(data, a, b)
            was == Sub(start, a, b)
        IN  /\ SameElements(got, was)
            /\ got[t] = KthSmallest(was, t)
            /\ \A i \in 0 .. t : got[i] <= got[t]
            /\ \A i \in t .. b - a - 1 : got[i] >= got[t]
            /\ \A v \in Values(was) :
                  Cardinality({i \in 0 .. t : got[i] = v})
                      = Min2(CountUpTo(was, v), t + 1)
                            - Min2(CountLess(was, v), t + 1)

HeapSelectSelectsWitness ==
    /\ pc = "heapret"
    /\ 0 < a /\ b < Size(start)
    /\ 0 < t /\ t < b - a - 1
    /\ data[a + t] # start[a + t]
    /\ data[a + t] = KthSmallest(Sub(start, a, b), t)

\* a driver call that went past the fast paths and the insertion sort
ReturnsFromLoop ==
    /\ pc = "ret" /\ Entry \in Drivers
    /\ b - a > maxInsertion /\ t # 0 /\ t # b - 1

\* C15: a driver called with budget 0 on the whole slice, with target k-1
\* for a k in [1, N], returns with the k-th smallest element at k-1, nothing
\* greater before it, nothing smaller after it, and the k smallest elements
\* in the first k positions.
BudgetZeroOnWholeSlice ==
    (pc = "ret" /\ Entry \in Drivers) =>
        /\ SameElements(data, start)
        /\ data[k - 1] = KthSmallest(start, k - 1)
        /\ \A i \in 0 .. k - 2 : data[i] <= data[k - 1]
        /\ \A i \in k - 1 .. Size(data) - 1 : data[i] >= data[k - 1]

BudgetZeroOnWholeSliceWitness ==
    /\ ReturnsFromLoop
    /\ a = 0 /\ b = Size(start) /\ limit = 0
    /\ data[k - 1] # start[k - 1]
    /\ data[k - 1] = KthSmallest(start, k - 1)

\* C16: a driver that finds budget 0 on a subrange [a, b) of more than 12
\* elements, a > 0 included, heap-selects the rank t - a of [a, b) and
\* returns with the element of that rank at position t.
BudgetZeroOnSubrange ==
    (ReturnsFromLoop /\ limit = 0) =>
        data[t] = KthSmallest(Sub(start, a, b), t - a)

\* C17: at the start of every iteration of the driver loop 0 <= a < b <= N
\* and the target t = k-1 lies in [a, b).
TargetInSubrange ==
    pc = "loop" =>
        /\ 0 <= a /\ a < b /\ b <= Size(data)
        /\ t = k - 1
        /\ a <= t /\ t < b

TargetInSubrangeWitness ==
    /\ pc = "loop" /\ Entry \in Entries
    /\ 0 < a /\ b < Size(data) /\ b - a > maxInsertion
    /\ a < t /\ t < b - 1

\* C18: at the start of every iteration every element left of the subrange
\* is <= every element in it, and every element right of it is >= every
\* element in it.
OutsideIsSettled ==
    pc = "loop" =>
        \A j \in a .. b - 1 :
            /\ \A i \in 0 .. a - 1 : data[i] <= data[j]
            /\ \A i \in b .. Size(data) - 1 : data[i] >= data[j]

OutsideIsSettledWitness ==
    /\ pc = "loop" /\ Entry \in Entries
    /\ 0 < a /\ b < Size(data)
    /\ \E i \in a .. b - 2 : data[i] > data[i + 1]
    /\ \E i \in 0 .. a - 2 : data[i] > data[i + 1]
    /\ \A j \in a .. b - 1 :
          /\ \A i \in 0 .. a - 1 : data[i] <= data[j]
          /\ \A i \in b .. Size(data) - 1 : data[i] >= data[j]

\* d is in non-decreasing order on lo .. hi-1
SortedOn(d, lo, hi) == \A i \in lo .. hi - 2 : d[i] <= d[i + 1]

\* a call with k in [1, N] returns with a subrange of at most 12 elements
ReturnsOnSmallSubrange ==
    /\ pc = "ret" /\ 1 <= k /\ k <= Size(start)
    /\ b - a <= maxInsertion

\* C19, as claimed: a driver entered or iterating with a subrange [a, b) of
\* at most 12 elements, whatever the target in [a, b), returns with [a, b)
\* in non-decreasing order.
SmallSubrangeSorted == ReturnsOnSmallSubrange => SortedOn(data, a, b)

\* C19, amended: that holds when the loop is reached, that is unless the
\* driver is entered with target 0 or b-1; then it returns from a fast path,
\* with a minimum at a or a maximum at b-1 and the rest unsorted.
SmallSubrangeSortedInLoop ==
    ReturnsOnSmallSubrange =>
        /\ (t # 0 /\ t # Size(start) - 1) => SortedOn(data, a, b)
        /\ t = 0 => \A i \in a .. b - 1 : data[a] <= data[i]
        /\ t = Size(start) - 1 => \A i \in a .. b - 1 : data[b - 1] >= data[i]

SmallSubrangeSortedInLoopWitness ==
    /\ ReturnsOnSmallSubrange /\ Entry \in Entries
    /\ 0 < a /\ b < Size(start)
    /\ \E i \in a .. b - 2 : start[i] > start[i + 1]
    /\ SortedOn(data, a, b)

\* the main partition ran and the loop goes on: the pivot ended at mid
Descends == AtPartition /\ ~EqualPivot /\ pc' = "loop"

MidOfDescent == IF b' # b THEN b' ELSE a' - 1

\* C20, as claimed: after a main partition that does not end the call,
\* wasBalanced holds exactly when the smaller of leftLen = mid - a and
\* rightLen = b - mid is >= length / 8.
BalancedMeansBothSides ==
    [][Descends =>
          (wasBalanced' <=>
              Min2(MidOfDescent - a, b - MidOfDescent) >= (b - a) \div 8)]_vars

\* C20, amended: wasBalanced holds exactly when the side the driver goes
\* into is >= length / 8: leftLen when t < mid, rightLen when t > mid.
BalancedMeansChosenSide ==
    [][Descends =>
          (wasBalanced' <=>
              (IF t < MidOfDescent THEN MidOfDescent - a ELSE b - MidOfDescent)
                  >= (b - a) \div 8)]_vars

BalancedMeansChosenSideWitness ==
    /\ pc = "loop" /\ Entry \in Entries
    /\ ~wasBalanced
    /\ limit = InitialLimit(Size(start))
    /\ b - a > maxInsertion

----------------------------------------------------------------------------
\* the head of an iteration that will decrement the budget: the length and
\* budget tests are passed and wasBalanced is false
DecrementDue ==
    pc = "loop" /\ b - a > maxInsertion /\ limit # 0 /\ ~wasBalanced

\* a main partition after which wasBalanced is set to false
ImbalancedPartition == Descends /\ ~wasBalanced'

\* C21 as stated: the decrements of L and the main partitions that set
\* wasBalanced to false are paired, one decrement per such partition: an
\* iteration is about to decrement L exactly when the step that led to it is
\* a main partition that set wasBalanced to false.
OneDecrementPerImbalancedPartition ==
    [][(pc' = "loop") => (DecrementDue' <=> ImbalancedPartition)]_vars

\* C21: within a call, L changes only by the decrement at the head of an
\* iteration that passes the length and budget tests with wasBalanced false,
\* and every such iteration decrements it by one.
OneDecrementPerUnbalancedIteration ==
    [][(pc # "idle") =>
          IF DecrementDue THEN limit' = limit - 1 ELSE limit' = limit]_vars

\* a second decrement is due after an equal-pivot partition, with no main
\* partition since the first
OneDecrementPerUnbalancedIterationWitness ==
    /\ DecrementDue /\ Entry \in Entries
    /\ limit = InitialLimit(Size(data)) - 1
    /\ a > 0 /\ \A i \in a .. b - 1 : data[a - 1] < data[i]

----------------------------------------------------------------------------
\* the step through the equal-pivot branch
TakesEqualPivot == AtPartition /\ EqualPivot /\ pc' \in {"ret", "loop"}

\* C22: when the driver takes the equal-pivot branch the pivot equals the
\* element at a-1 and nothing in [a, b) is less than it; the m returned by
\* the equal-pivot partition has a+1 <= m <= b, [a, m) holds copies of the
\* pivot and [m, b) strictly greater elements, and with t < m the element at
\* t is the one of rank t.
EqualPivotBranch ==
    [][TakesEqualPivot =>
          LET v == data[pivot]
              m == partitionEqual(Entry, data, a, b, pivot).mid
          IN  /\ data[a - 1] = v
              /\ \A i \in a .. b - 1 : ~(data[i] < v)
              /\ a + 1 <= m /\ m <= b
              /\ \A i \in a .. m - 1 : data'[i] = v
              /\ \A i \in m .. b - 1 : data'[i] > v
              /\ (pc' = "ret") = (t < m)
              /\ (pc' = "loop") => a' = m
              /\ t < m => data'[t] = KthSmallest(start, t)]_vars

\* a call has returned through the equal-pivot branch, with elements greater
\* than the pivot left in the subrange; another has gone on past the block
EqualPivotBranchWitness ==
    /\ InCall \/ pc = "ret"
    /\ Entry \in Entries /\ a > 0
    /\ \/ /\ pc = "ret" /\ b - a > maxInsertion /\ limit # 0
          /\ a <= t /\ data[t] = data[a - 1]
          /\ data[b - 1] > data[a - 1]
       \/ /\ pc = "loop" /\ \A i \in a .. b - 1 : data[a - 1] < data[i]
          /\ data[a - 1] = data[a - 2]

----------------------------------------------------------------------------
\* C23: the partial insertion sort is attempted only in an iteration with
\* wasBalanced and wasPartitioned true and an increasing hint (the hint of the
\* pivot choice, or the one set by the reversal); the attempt either fails
\* and goes on to the partitioning or returns, and when it returns [a, b) is
\* in non-decreasing order.
PartialInsertionSortFastPath ==
    [][/\ (PastHint /\ pc' = "part") =>
             (wasBalanced /\ wasPartitioned /\ hint = increasingHint)
       /\ (PastHint /\ wasBalanced /\ wasPartitioned /\ hint = increasingHint)
             => /\ pc' \in {"part", "ret"}
                /\ pc' = "ret" => SortedOn(data', a, b)]_vars

\* a call on a descending slice has returned through the fast path after the
\* reversal
PartialInsertionSortFastPathWitness ==
    /\ pc = "ret" /\ Entry \in Entries
    /\ b - a > maxInsertion /\ limit # 0
    /\ wasBalanced /\ wasPartitioned /\ hint = increasingHint
    /\ SortedOn(data, a, b)
    /\ data # start /\ data = reverseRange(start, 0, Size(start))

----------------------------------------------------------------------------
\* C24: when the hint is decreasing and the driver reverses [a, b), the new
\* pivot index is (b-1) - (p-a), it lies in [a, b), and after the reversal it
\* holds the element that was at p before.
PivotMirrored ==
    [][(pc = "hint" /\ hint = decreasingHint) =>
          /\ pivot' = (b - 1) - (pivot - a)
          /\ a <= pivot' /\ pivot' < b
          /\ data'[pivot'] = data[pivot]
          /\ \A i \in a .. b - 1 : data'[i] = data[(b - 1) - (i - a)]]_vars

\* a subrange past the start of the slice has been reversed and its pivot
\* has moved with it
PivotMirroredWitness ==
    /\ pc = "sorted" /\ Entry \in Entries
    /\ a > 0
    /\ pivot # (b - 1) - (pivot - a)
    /\ data[pivot] # data[(b - 1) - (pivot - a)]

----------------------------------------------------------------------------
\* the e with 2^e <= n < 2^(e+1)
FloorLog2(n) == CHOOSE e \in 0 .. 30 : Pow2(e) <= n /\ n < Pow2(e + 1)

\* C25: for every N >= 1 the public entries start the driver with budget
\* floor(log2 N) + 1, the bit length of N; N = 1 gives 1.
InitialBudgetIsBitLength ==
    (pc = "entry" /\ Entry \in Entries) =>
        /\ Size(data) >= 1
        /\ limit = FloorLog2(Size(data)) + 1
        /\ Size(data) = 1 => limit = 1

\* the driver is entered from a public entry on a slice of one element
InitialBudgetIsBitLengthWitness ==
    /\ pc = "entry" /\ Entry \in Entries
    /\ Size(data) = 1 /\ limit = 1

----------------------------------------------------------------------------
\* C26: with a comparator whose answers are arbitrary, a call of Func with
\* 1 <= k <= N terminates (every new iteration has a shorter subrange) and
\* reads and writes only positions of [0, N): the subrange and the pivot are
\* inside the slice, and so is the position a + t that heap-select swaps.
AnyComparatorIsSafe ==
    [][/\ (pc # "entry" /\ pc' = "loop") =>
             (0 <= b' - a' /\ b' - a' < b - a)
       /\ InCall =>
             /\ 0 <= a /\ a <= b /\ b <= Size(data)
             /\ (pc = "loop" /\ b - a > maxInsertion /\ limit = 0)
                   => (0 <= t /\ a + t < Size(data))
             /\ pc \in {"hint", "sorted", "part"} => (a <= pivot /\ pivot < b)
       /\ pc' # "panic"]_vars

----------------------------------------------------------------------------
----------------------------------------------------------------------------
\* C28: no step of a call writes a position outside the subrange [a, b) the
\* driver is at, and from one iteration to the next a does not decrease and
\* b does not increase.
WritesStayInSubrange ==
    [][InCall =>
          /\ \A i \in DOMAIN data : (i < a \/ i >= b) => data'[i] = data[i]
          /\ InCall' => (a <= a' /\ b' <= b)]_vars

----------------------------------------------------------------------------
IsPowerOfTwo(m) == \E e \in 0 .. 30 : m = Pow2(e)

\* C29 as stated: the modulus for a subrange of length n >= 1 is the
\* smallest power of two that is >= n.
ModulusIsSmallestPowerAtLeast ==
    pc = "powret" =>
        LET n == b - a
        IN  /\ IsPowerOfTwo(modulus) /\ modulus >= n
            /\ \A m \in 1 .. modulus - 1 : IsPowerOfTwo(m) => m < n

\* C29: the modulus for a subrange of length n >= 1 is the smallest power
\* of two that is greater than n: 2n when n is a power of two, and the
\* smallest power of two >= n otherwise.
ModulusIsSmallestPowerAbove ==
    pc = "powret" =>
        LET n == b - a
        IN  /\ IsPowerOfTwo(modulus) /\ modulus > n
            /\ \A m \in 1 .. modulus - 1 : IsPowerOfTwo(m) => m <= n
            /\ modulus = IF IsPowerOfTwo(n) THEN 2 * n
                         ELSE CHOOSE m \in n .. 2 * n : IsPowerOfTwo(m)

\* the call for a length that is a power of two has returned twice the
\* length
ModulusIsSmallestPowerAboveWitness ==
    pc = "powret" /\ b - a = 8 /\ modulus = 16

====
